---- MODULE Spec2Model ----
(***************************************************************************)
(* DragonNetworkTester: the run lifecycle of EnhancedNetworkTester         *)
(* (main -> __init__ -> start -> _display_final_report -> _cleanup), the   *)
(* worker send loops (_send_packets), the resource monitor loop and the    *)
(* progress loop, at the granularity of the shared reads and writes each   *)
(* thread performs.                                                        *)
(*                                                                         *)
(* `with threading.Lock():` (lines 215, 228) creates a fresh lock object   *)
(* on every entry, so it excludes nobody: `x += 1` under it is a read of   *)
(* the attribute followed by a write of the incremented value, and other   *)
(* threads may run between the two.                                        *)
(***************************************************************************)
EXTENDS Integers, Sequences, FiniteSets, TLC

\* ---------------------------------------------------------------- bounds
MaxWorkers == 2      \* largest requested thread count that is run
MaxIter == 2         \* send-loop iterations explored per worker

\* ------------------------------------------------------ program constants
HeaderLen == 24          \* _generate_packet: header bytes
ThreadLimit == 500       \* __init__: min(thread_count, 500)
MaxDatagram == 65507     \* __init__: min(packet_size, 65507)
MaxPort == 65535         \* validate_input
CpuHigh == 90            \* _send_packets: cpu_percent > 90
ThrottleEvery == 1000    \* _send_packets: packets_sent % 1000 == 0

Workers == 1..MaxWorkers

\* Inputs of main(): the parsed command line.
IpChoices == {"", "10.0.0.1"}
PortChoices == {80, MaxPort + 1}
DurationChoices == {0, 1}
ThreadChoices == (0..MaxWorkers) \cup {ThreadLimit, ThreadLimit + 1}
PacketSizeChoices == {HeaderLen - 1, HeaderLen, MaxDatagram + 1}
CpuReadings == {50, 95}

VARIABLES
    args,            \* argparse.Namespace handed to EnhancedNetworkTester
    pc_main,         \* position of the main thread (main / __init__ / start)
    thread_count,    \* self.thread_count
    packet_size,     \* self.packet_size
    sockets,         \* self.sockets: per socket, the number of close() calls
    stop_event,      \* self.stop_event.is_set()
    stop_sets,       \* number of stop_event.set() calls made
    stats,           \* self.stats (NetworkStats)
    cpu_percent,     \* self.system_resources.cpu_percent
    pc_mon,          \* monitor_thread position
    pc_prog,         \* progress_thread position
    submitted,       \* number of futures submitted to the executor
    pc,              \* per worker: position in _send_packets
    tmp,             \* per worker: value read by the pending +=
    ok,              \* per worker: success updates (packets_sent += 1) executed
    bad,             \* per worker: failure updates (failed_attempts += 1) executed
    kth_send,        \* per worker: its last success update stored a multiple of 1000
    interrupted,     \* KeyboardInterrupt was raised in the main thread
    report           \* rows of the final report, once printed

vars == <<args, pc_main, thread_count, packet_size, sockets, stop_event,
          stop_sets, stats, cpu_percent, pc_mon, pc_prog, submitted, pc, tmp,
          ok, bad, kth_send, interrupted, report>>

mainVars == <<pc_main, thread_count, packet_size, sockets, interrupted, report>>
workerVars == <<pc, tmp, ok, bad, kth_send>>

\* ------------------------------------------------------------ NetworkStats
NetworkStats ==
    [packets_sent |-> 0, bytes_sent |-> 0, failed_attempts |-> 0,
     response_times |-> <<>>, packet_sizes |-> <<>>]

\* Mutant of success_rate: the share of failed attempts instead of sent packets.
FailureRate(s) ==
    LET total == s.packets_sent + s.failed_attempts
    IN  IF total > 0 THEN <<s.failed_attempts * 100, total>> ELSE <<0, 1>>

\* NetworkStats.success_rate as the exact fraction <<numerator, denominator>>
\* of the float the code computes: packets_sent / total * 100, else 0.0.
success_rate(s) ==
    LET total == s.packets_sent + s.failed_attempts
    IN  IF total > 0 THEN <<s.packets_sent * 100, total>> ELSE <<0, 1>>

RateEquals(rate, n) == rate[1] = n * rate[2]

\* ------------------------------------------------------------- construction
\* Mutant of Min: the safety limit is not applied.
MinUnclamped(a, b) == a

Min(a, b) == IF a <= b THEN a ELSE b

\* validate_input: TRUE when no ValueError is raised.
validate_input(ip, port, duration) ==
    /\ ip # ""
    /\ 0 <= port /\ port <= MaxPort
    /\ ~(duration <= 0)

\* _setup_sockets: one open socket per worker.
SetupSockets(n) == [i \in 1..n |-> 0]

Init ==
    /\ args \in [ip : IpChoices, port : PortChoices, duration : DurationChoices,
                 threads : ThreadChoices, packet_size : PacketSizeChoices]
    /\ pc_main = "construct"
    /\ thread_count = 0
    /\ packet_size = 0
    /\ sockets = <<>>
    /\ stop_event = FALSE
    /\ stop_sets = 0
    /\ stats = NetworkStats
    /\ cpu_percent = 0
    /\ pc_mon = "idle"
    /\ pc_prog = "idle"
    /\ submitted = 0
    /\ pc = [w \in Workers |-> "idle"]
    /\ tmp = [w \in Workers |-> 0]
    /\ ok = [w \in Workers |-> 0]
    /\ bad = [w \in Workers |-> 0]
    /\ kth_send = [w \in Workers |-> FALSE]
    /\ interrupted = FALSE
    /\ report = <<>>

\* main(): EnhancedNetworkTester(...). A ValueError from validate_input is
\* caught by main's `except Exception` and ends the process with exit code 1.
Construct ==
    /\ pc_main = "construct"
    /\ IF validate_input(args.ip, args.port, args.duration)
       THEN /\ thread_count' = Min(args.threads, ThreadLimit)
            /\ packet_size' = Min(args.packet_size, MaxDatagram)
            /\ sockets' = SetupSockets(Min(args.threads, ThreadLimit))
            /\ pc_main' = "start"
       ELSE /\ pc_main' = "fatal"
            /\ UNCHANGED <<thread_count, packet_size, sockets>>
    /\ UNCHANGED <<args, stop_event, stop_sets, stats, cpu_percent, pc_mon,
                   pc_prog, submitted, workerVars, interrupted, report>>

\* ------------------------------------------------------------------ start()
\* start(): monitor_thread.start() (lines 236-241).
StartMonitor ==
    /\ pc_main = "start"
    /\ pc_mon' = "check"
    /\ pc_main' = "pool"
    /\ UNCHANGED <<args, thread_count, packet_size, sockets, stop_event,
                   stop_sets, stats, cpu_percent, pc_prog, submitted,
                   workerVars, interrupted, report>>

\* ThreadPoolExecutor(max_workers=self.thread_count) raises ValueError when
\* max_workers <= 0; the error leaves start() and main exits with code 1.
\* Pools larger than MaxWorkers are not run.
CreatePool ==
    /\ pc_main = "pool"
    /\ thread_count <= MaxWorkers
    /\ pc_main' = IF thread_count <= 0 THEN "fatal" ELSE "submit"
    /\ UNCHANGED <<args, thread_count, packet_size, sockets, stop_event,
                   stop_sets, stats, cpu_percent, pc_mon, pc_prog, submitted,
                   workerVars, interrupted, report>>

\* executor.submit(self._send_packets, i): the pool starts a thread for it.
Submit ==
    /\ pc_main = "submit"
    /\ submitted < thread_count
    /\ submitted' = submitted + 1
    /\ pc' = [pc EXCEPT ![submitted + 1] = "check"]
    /\ UNCHANGED <<args, mainVars, stop_event, stop_sets, stats, cpu_percent,
                   pc_mon, pc_prog, tmp, ok, bad, kth_send>>

\* progress_thread.start(), then the main thread enters time.sleep(duration).
StartProgress ==
    /\ pc_main = "submit"
    /\ submitted = thread_count
    /\ pc_prog' = "loop"
    /\ pc_main' = "sleeping"
    /\ UNCHANGED <<args, thread_count, packet_size, sockets, stop_event,
                   stop_sets, stats, cpu_percent, pc_mon, submitted,
                   workerVars, interrupted, report>>

\* time.sleep(self.duration) returns; self.stop_event.set().
TimerExpires ==
    /\ pc_main = "sleeping"
    /\ stop_event' = TRUE
    /\ stop_sets' = stop_sets + 1
    /\ pc_main' = "join_futures"
    /\ UNCHANGED <<args, thread_count, packet_size, sockets, stats,
                   cpu_percent, pc_mon, pc_prog, submitted, workerVars,
                   interrupted, report>>

\* KeyboardInterrupt raised in time.sleep(self.duration): control leaves the
\* with-block body at once and enters ThreadPoolExecutor.__exit__.
Interrupt ==
    /\ pc_main = "sleeping"
    /\ interrupted' = TRUE
    /\ pc_main' = "exit_with"
    /\ UNCHANGED <<args, thread_count, packet_size, sockets, stop_event,
                   stop_sets, stats, cpu_percent, pc_mon, pc_prog, submitted,
                   workerVars, report>>

\* Mutant of WorkersDone: the teardown does not wait for the workers.
WorkersDoneNoWait == TRUE

\* Every submitted future has finished.
WorkersDone == \A w \in 1..submitted : pc[w] = "done"

\* for future in futures: future.result()
JoinFutures ==
    /\ pc_main = "join_futures"
    /\ WorkersDone
    /\ pc_main' = "join_progress"
    /\ UNCHANGED <<args, thread_count, packet_size, sockets, stop_event,
                   stop_sets, stats, cpu_percent, pc_mon, pc_prog, submitted,
                   workerVars, interrupted, report>>

\* progress_thread.join()
JoinProgress ==
    /\ pc_main = "join_progress"
    /\ pc_prog = "done"
    /\ pc_main' = "join_monitor"
    /\ UNCHANGED <<args, thread_count, packet_size, sockets, stop_event,
                   stop_sets, stats, cpu_percent, pc_mon, pc_prog, submitted,
                   workerVars, interrupted, report>>

\* monitor_thread.join()
JoinMonitor ==
    /\ pc_main = "join_monitor"
    /\ pc_mon = "done"
    /\ pc_main' = "exit_with"
    /\ UNCHANGED <<args, thread_count, packet_size, sockets, stop_event,
                   stop_sets, stats, cpu_percent, pc_mon, pc_prog, submitted,
                   workerVars, interrupted, report>>

\* ThreadPoolExecutor.__exit__: shutdown(wait=True) joins every worker
\* thread. Afterwards a pending KeyboardInterrupt continues to main, which
\* prints "Test interrupted by user" and exits with code 0; otherwise start()
\* goes on to the final report.
ExecutorExit ==
    /\ pc_main = "exit_with"
    /\ WorkersDone
    /\ pc_main' = IF interrupted THEN "interrupted" ELSE "report"
    /\ UNCHANGED <<args, thread_count, packet_size, sockets, stop_event,
                   stop_sets, stats, cpu_percent, pc_mon, pc_prog, submitted,
                   workerVars, interrupted, report>>

\* The rows of _display_final_report that depend on the counters. The
\* "Success Rate" row (1 - failed_attempts/packets_sent)*100 is kept as the
\* exact fraction <<numerator, denominator>>.
FinalReportRows(s) ==
    [packets |-> s.packets_sent,
     bytes |-> s.bytes_sent,
     failed |-> s.failed_attempts,
     success_pct |-> <<(s.packets_sent - s.failed_attempts) * 100, s.packets_sent>>]

\* _display_final_report: failed_attempts / packets_sent raises
\* ZeroDivisionError when packets_sent == 0; the error leaves start() before
\* _cleanup and main exits with code 1.
DisplayFinalReport ==
    /\ pc_main = "report"
    /\ IF stats.packets_sent = 0
       THEN /\ pc_main' = "fatal"
            /\ report' = report
       ELSE /\ pc_main' = "cleanup"
            /\ report' = <<FinalReportRows(stats)>>
    /\ UNCHANGED <<args, thread_count, packet_size, sockets, stop_event,
                   stop_sets, stats, cpu_percent, pc_mon, pc_prog, submitted,
                   workerVars, interrupted>>

\* Mutant of Cleanup: a teardown that also re-arms the event (stop_event.clear()).
CleanupClearsStop ==
    /\ pc_main = "cleanup"
    /\ sockets' = [i \in DOMAIN sockets |-> sockets[i] + 1]
    /\ pc_main' = "done"
    /\ stop_event' = FALSE
    /\ UNCHANGED <<args, thread_count, packet_size, stop_sets,
                   stats, cpu_percent, pc_mon, pc_prog, submitted, workerVars,
                   interrupted, report>>

\* _cleanup: sock.close() on every socket; start() and main return.
Cleanup ==
    /\ pc_main = "cleanup"
    /\ sockets' = [i \in DOMAIN sockets |-> sockets[i] + 1]
    /\ pc_main' = "done"
    /\ UNCHANGED <<args, thread_count, packet_size, stop_event, stop_sets,
                   stats, cpu_percent, pc_mon, pc_prog, submitted, workerVars,
                   interrupted, report>>

\* ------------------------------------------------- _monitor_system_resources
MonitorCheck ==
    /\ pc_mon = "check"
    /\ pc_mon' = IF stop_event THEN "done" ELSE "sample"
    /\ UNCHANGED <<args, mainVars, stop_event, stop_sets, stats, cpu_percent,
                   pc_prog, submitted, workerVars>>

\* cpu_percent = psutil.cpu_percent(); ...; time.sleep(1)
MonitorSample ==
    /\ pc_mon = "sample"
    /\ \E reading \in CpuReadings : cpu_percent' = reading
    /\ pc_mon' = "check"
    /\ UNCHANGED <<args, mainVars, stop_event, stop_sets, stats, pc_prog,
                   submitted, workerVars>>

\* ------------------------------------------------------- _display_progress
\* while not progress.finished and not self.stop_event.is_set(): the bar is
\* finished once the elapsed time reaches the duration.
DisplayProgress ==
    /\ pc_prog = "loop"
    /\ \E finished \in BOOLEAN : finished \/ stop_event
    /\ pc_prog' = "done"
    /\ UNCHANGED <<args, mainVars, stop_event, stop_sets, stats, cpu_percent,
                   pc_mon, submitted, workerVars>>

\* ----------------------------------------------------------- _send_packets
\* _generate_packet: os.urandom raises ValueError for a negative length.
CanGenerate(size) == size - HeaderLen >= 0

\* Mutant of GeneratePacketLen: a payload of packet_size bytes after the header.
GeneratePacketLenFullPayload(size) == HeaderLen + size

\* len(bytes(header) + payload): 24 header bytes and packet_size - 24 payload bytes.
GeneratePacketLen(size) == HeaderLen + (size - HeaderLen)

\* Mutant of OnException: the try/except wrapped around the loop instead of
\* inside it, so that a raised error ends the worker.
OnExceptionLeavesLoop == "done"

\* Where control goes when the loop body raises: the handler inside the loop.
OnException == "f_rd"

\* Mutant of LoopCheck: the stop flag tested at the bottom of the loop, so
\* the first iteration starts without looking at it.
LoopCheckAtBottom(w) ==
    /\ pc[w] = "check"
    /\ stop_event \/ ok[w] + bad[w] < MaxIter
    /\ pc' = [pc EXCEPT ![w] =
                IF stop_event /\ ok[w] + bad[w] > 0 THEN "done" ELSE "send"]
    /\ UNCHANGED <<args, mainVars, stop_event, stop_sets, stats, cpu_percent,
                   pc_mon, pc_prog, submitted, tmp, ok, bad, kth_send>>

\* while not self.stop_event.is_set():
LoopCheck(w) ==
    /\ pc[w] = "check"
    /\ stop_event \/ ok[w] + bad[w] < MaxIter
    /\ pc' = [pc EXCEPT ![w] = IF stop_event THEN "done" ELSE "send"]
    /\ UNCHANGED <<args, mainVars, stop_event, stop_sets, stats, cpu_percent,
                   pc_mon, pc_prog, submitted, tmp, ok, bad, kth_send>>

\* packet = self._generate_packet(); sock.sendto(packet, self.target).
\* sendto may raise for any transport error, and does on a closed socket.
Send(w) ==
    /\ pc[w] = "send"
    /\ \E sent \in BOOLEAN :
         /\ sent => (CanGenerate(packet_size) /\ sockets[w] = 0)
         /\ pc' = [pc EXCEPT ![w] = IF sent THEN "ps_rd" ELSE OnException]
    /\ UNCHANGED <<args, mainVars, stop_event, stop_sets, stats, cpu_percent,
                   pc_mon, pc_prog, submitted, tmp, ok, bad, kth_send>>

\* self.stats.packets_sent += 1: the read
ReadPacketsSent(w) ==
    /\ pc[w] = "ps_rd"
    /\ tmp' = [tmp EXCEPT ![w] = stats.packets_sent]
    /\ pc' = [pc EXCEPT ![w] = "ps_wr"]
    /\ UNCHANGED <<args, mainVars, stop_event, stop_sets, stats, cpu_percent,
                   pc_mon, pc_prog, submitted, ok, bad, kth_send>>

\* self.stats.packets_sent += 1: the write
WritePacketsSent(w) ==
    /\ pc[w] = "ps_wr"
    /\ stats' = [stats EXCEPT !.packets_sent = tmp[w] + 1]
    /\ ok' = [ok EXCEPT ![w] = @ + 1]
    /\ kth_send' = [kth_send EXCEPT ![w] = ((tmp[w] + 1) % ThrottleEvery = 0)]
    /\ pc' = [pc EXCEPT ![w] = "bs_rd"]
    /\ UNCHANGED <<args, mainVars, stop_event, stop_sets, cpu_percent,
                   pc_mon, pc_prog, submitted, tmp, bad>>

\* self.stats.bytes_sent += len(packet): the read
ReadBytesSent(w) ==
    /\ pc[w] = "bs_rd"
    /\ tmp' = [tmp EXCEPT ![w] = stats.bytes_sent]
    /\ pc' = [pc EXCEPT ![w] = "bs_wr"]
    /\ UNCHANGED <<args, mainVars, stop_event, stop_sets, stats, cpu_percent,
                   pc_mon, pc_prog, submitted, ok, bad, kth_send>>

\* self.stats.bytes_sent += len(packet): the write
WriteBytesSent(w) ==
    /\ pc[w] = "bs_wr"
    /\ stats' = [stats EXCEPT !.bytes_sent = tmp[w] + GeneratePacketLen(packet_size)]
    /\ pc' = [pc EXCEPT ![w] = "rt_app"]
    /\ UNCHANGED <<args, mainVars, stop_event, stop_sets, cpu_percent,
                   pc_mon, pc_prog, submitted, tmp, ok, bad, kth_send>>

\* self.stats.response_times.append(response_time); list.append is atomic.
\* The measured time itself is not modelled: every sample is recorded as 0.
AppendResponseTime(w) ==
    /\ pc[w] = "rt_app"
    /\ stats' = [stats EXCEPT !.response_times = Append(@, 0)]
    /\ pc' = [pc EXCEPT ![w] = "sz_app"]
    /\ UNCHANGED <<args, mainVars, stop_event, stop_sets, cpu_percent,
                   pc_mon, pc_prog, submitted, tmp, ok, bad, kth_send>>

\* self.stats.packet_sizes.append(len(packet))
AppendPacketSize(w) ==
    /\ pc[w] = "sz_app"
    /\ stats' = [stats EXCEPT !.packet_sizes = Append(@, GeneratePacketLen(packet_size))]
    /\ pc' = [pc EXCEPT ![w] = "thr_cpu"]
    /\ UNCHANGED <<args, mainVars, stop_event, stop_sets, cpu_percent,
                   pc_mon, pc_prog, submitted, tmp, ok, bad, kth_send>>

\* if self.system_resources.cpu_percent > 90: time.sleep(0.01)
ThrottleOnLoad(w) ==
    /\ pc[w] = "thr_cpu"
    /\ pc' = [pc EXCEPT ![w] = IF cpu_percent > CpuHigh THEN "sleep_load" ELSE "thr_k"]
    /\ UNCHANGED <<args, mainVars, stop_event, stop_sets, stats, cpu_percent,
                   pc_mon, pc_prog, submitted, tmp, ok, bad, kth_send>>

\* elif self.stats.packets_sent % 1000 == 0: time.sleep(0.001)
ThrottleEveryK(w) ==
    /\ pc[w] = "thr_k"
    /\ pc' = [pc EXCEPT ![w] =
                IF stats.packets_sent % ThrottleEvery = 0 THEN "sleep_k" ELSE "check"]
    /\ UNCHANGED <<args, mainVars, stop_event, stop_sets, stats, cpu_percent,
                   pc_mon, pc_prog, submitted, tmp, ok, bad, kth_send>>

\* time.sleep(0.01), time.sleep(0.001) or time.sleep(0.1) returns.
Wake(w) ==
    /\ pc[w] \in {"sleep_load", "sleep_k", "backoff"}
    /\ pc' = [pc EXCEPT ![w] = "check"]
    /\ UNCHANGED <<args, mainVars, stop_event, stop_sets, stats, cpu_percent,
                   pc_mon, pc_prog, submitted, tmp, ok, bad, kth_send>>

\* except Exception: self.stats.failed_attempts += 1: the read
ReadFailedAttempts(w) ==
    /\ pc[w] = "f_rd"
    /\ tmp' = [tmp EXCEPT ![w] = stats.failed_attempts]
    /\ pc' = [pc EXCEPT ![w] = "f_wr"]
    /\ UNCHANGED <<args, mainVars, stop_event, stop_sets, stats, cpu_percent,
                   pc_mon, pc_prog, submitted, ok, bad, kth_send>>

\* Mutant of WriteFailedAttempts: the handler without its time.sleep(0.1).
WriteFailedAttemptsNoBackoff(w) ==
    /\ pc[w] = "f_wr"
    /\ stats' = [stats EXCEPT !.failed_attempts = tmp[w] + 1]
    /\ bad' = [bad EXCEPT ![w] = @ + 1]
    /\ pc' = [pc EXCEPT ![w] = "check"]
    /\ UNCHANGED <<args, mainVars, stop_event, stop_sets, cpu_percent,
                   pc_mon, pc_prog, submitted, tmp, ok, kth_send>>

\* self.stats.failed_attempts += 1: the write; then time.sleep(0.1) begins.
WriteFailedAttempts(w) ==
    /\ pc[w] = "f_wr"
    /\ stats' = [stats EXCEPT !.failed_attempts = tmp[w] + 1]
    /\ bad' = [bad EXCEPT ![w] = @ + 1]
    /\ pc' = [pc EXCEPT ![w] = "backoff"]
    /\ UNCHANGED <<args, mainVars, stop_event, stop_sets, cpu_percent,
                   pc_mon, pc_prog, submitted, tmp, ok, kth_send>>

Worker(w) ==
    \/ LoopCheck(w)
    \/ Send(w)
    \/ ReadPacketsSent(w)
    \/ WritePacketsSent(w)
    \/ ReadBytesSent(w)
    \/ WriteBytesSent(w)
    \/ AppendResponseTime(w)
    \/ AppendPacketSize(w)
    \/ ThrottleOnLoad(w)
    \/ ThrottleEveryK(w)
    \/ Wake(w)
    \/ ReadFailedAttempts(w)
    \/ WriteFailedAttempts(w)

Main ==
    \/ Construct
    \/ StartMonitor
    \/ CreatePool
    \/ Submit
    \/ StartProgress
    \/ TimerExpires
    \/ JoinFutures
    \/ JoinProgress
    \/ JoinMonitor
    \/ ExecutorExit
    \/ DisplayFinalReport
    \/ Cleanup

Next ==
    \/ Main
    \/ Interrupt
    \/ MonitorCheck
    \/ MonitorSample
    \/ DisplayProgress
    \/ \E w \in Workers : Worker(w)

Spec == Init /\ [][Next]_vars

\* Every thread that can run is eventually scheduled, and time.sleep(duration)
\* eventually returns. The external interruption is not forced to happen.
FairSpec ==
    /\ Spec
    /\ WF_vars(Main)
    /\ WF_vars(MonitorCheck \/ MonitorSample)
    /\ WF_vars(DisplayProgress)
    /\ \A w \in Workers : WF_vars(Worker(w))

\* ------------------------------------------------------------- properties
RECURSIVE SumTo(_, _)
SumTo(f, n) == IF n = 0 THEN 0 ELSE f[n] + SumTo(f, n - 1)
Total(f) == SumTo(f, MaxWorkers)

\* The process has ended: start() returned, or main exited on an error or on
\* the interruption.
RunEnded == pc_main \in {"done", "fatal", "interrupted"}

\* Every worker of the pool was started and has left its send loop.
WorkersStopped == thread_count > 0 /\ submitted = thread_count /\ WorkersDone

\* C1: no lost updates. Once all W workers have left the send loop, the sum
\* packets_sent + failed_attempts equals the number of success and failure
\* updates the workers executed (W*T for T iterations each).
C1_NoLostUpdates ==
    WorkersStopped =>
        stats.packets_sent + stats.failed_attempts = Total(ok) + Total(bad)

\* C2: a run in which every send attempt failed still completes: once it has
\* ended after the stop signal, the final report was produced, start()
\* returned normally and success_rate is 0.
C2_AllFailRunCompletes ==
    (RunEnded /\ stop_event /\ Total(ok) = 0 /\ Total(bad) > 0) =>
        /\ pc_main = "done"
        /\ report # <<>>
        /\ RateEquals(success_rate(stats), 0)

\* C3: an interruption that arrives while start() waits for the duration
\* leads to the full teardown: the stop signal is set, every worker stops
\* and a final report is produced.
C3_InterruptTeardown ==
    interrupted ~> (stop_event /\ WorkersDone /\ report # <<>>)

\* C4: when the run has ended, whichever way, every socket created by
\* _setup_sockets has been closed exactly once.
C4_ClosedExactlyOnce ==
    RunEnded => \A i \in DOMAIN sockets : sockets[i] = 1

\* C5: once the timer has expired and the stop signal is set, every worker
\* and the monitor loop eventually exit and start() eventually gets through
\* the final report and the cleanup.
C5_TimerTermination ==
    stop_event ~> (WorkersDone /\ pc_mon = "done" /\ report # <<>> /\ pc_main = "done")

\* C6: the stop signal is set at most once, and once set it stays set: no
\* step of any thread clears it.
C6_StopSignalStable ==
    [][(stop_event => stop_event') /\ stop_sets' <= 1]_vars

\* A run that set the stop signal and then went through the whole teardown.
C6_Witness == stop_event /\ stop_sets = 1 /\ pc_main = "done"

\* C7: while the stop signal is unset every started worker is still in its
\* send loop; a failed packet build or send does not end it.
C7_WorkersRunUntilStop ==
    ~stop_event => \A w \in 1..submitted : pc[w] # "done"

\* All workers started, the stop signal unset, and a worker that has been
\* through the failure handler and its backoff is sending again.
C7_Witness ==
    /\ ~stop_event
    /\ thread_count > 1 /\ submitted = thread_count
    /\ \E w \in 1..submitted : bad[w] > 0 /\ pc[w] = "send"

\* C8: a requested worker count of 0 or a duration of 0 is rejected during
\* construction: the program never gets past it, no socket is allocated and
\* no monitor or worker thread is started.
C8_ZeroRejectedAtConstruction ==
    (args.threads = 0 \/ args.duration = 0) =>
        /\ pc_main \in {"construct", "fatal"}
        /\ sockets = <<>>
        /\ pc_mon = "idle"
        /\ submitted = 0

\* C9: no step decreases packets_sent, bytes_sent or failed_attempts.
C9_CountersNeverDecrease ==
    [][/\ stats'.packets_sent >= stats.packets_sent
       /\ stats'.bytes_sent >= stats.bytes_sent
       /\ stats'.failed_attempts >= stats.failed_attempts]_vars

\* C10: several workers, every send succeeded: once all workers have stopped
\* failed_attempts is 0, success_rate is 100 and bytes_sent is packets_sent
\* times the packet size.
C10_AllSucceedTotals ==
    (WorkersStopped /\ thread_count > 1 /\ Total(bad) = 0 /\ Total(ok) > 0) =>
        /\ stats.failed_attempts = 0
        /\ RateEquals(success_rate(stats), 100)
        /\ stats.bytes_sent = stats.packets_sent * packet_size

\* ------------------------------------------------ construction and submission
\* The main thread from main() to the end of the submit loop of start(), for
\* pools of any size: the threads the pool starts are not scheduled here.

\* ThreadPoolExecutor(max_workers=self.thread_count), any pool size.
CreatePoolAnySize ==
    /\ pc_main = "pool"
    /\ pc_main' = IF thread_count <= 0 THEN "fatal" ELSE "submit"
    /\ UNCHANGED <<args, thread_count, packet_size, sockets, stop_event,
                   stop_sets, stats, cpu_percent, pc_mon, pc_prog, submitted,
                   workerVars, interrupted, report>>

\* executor.submit(self._send_packets, i); the started thread has not run yet.
SubmitUnscheduled ==
    /\ pc_main = "submit"
    /\ submitted < thread_count
    /\ submitted' = submitted + 1
    /\ UNCHANGED <<args, mainVars, stop_event, stop_sets, stats, cpu_percent,
                   pc_mon, pc_prog, workerVars>>

SetupNext ==
    \/ Construct
    \/ StartMonitor
    \/ CreatePoolAnySize
    \/ SubmitUnscheduled
    \/ StartProgress

SetupSpec == Init /\ [][SetupNext]_vars

C12_ZeroIffNoAttempts ==
    LET total == stats.packets_sent + stats.failed_attempts
        rate == success_rate(stats)
    IN  /\ RateEquals(rate, 0) <=> total = 0
        /\ total # 0 => rate[1] * total = stats.packets_sent * 100 * rate[2]

\* C12 amended: success_rate is 0 if and only if packets_sent is 0 (whether
\* or not there were failed attempts); whenever there was any attempt it
\* equals packets_sent / (packets_sent + failed_attempts) * 100.
C12_ZeroIffNothingSent ==
    LET total == stats.packets_sent + stats.failed_attempts
        rate == success_rate(stats)
    IN  /\ RateEquals(rate, 0) <=> stats.packets_sent = 0
        /\ total # 0 => rate[1] * total = stats.packets_sent * 100 * rate[2]
        /\ rate[2] > 0

\* Failed attempts only: the rate is 0 although the counters are not both 0.
C12_Witness ==
    /\ stats.packets_sent = 0
    /\ stats.failed_attempts > 0
    /\ RateEquals(success_rate(stats), 0)

\* _generate_enhanced_packet: 8-byte timestamp, 8-byte sequence number,
\* 8-byte flags, then the payload.
GenerateEnhancedPacketLen(size) == 8 + 8 + 8 + (size - HeaderLen)

\* C13: for a configured packet size of at least 24, packet construction
\* (plain and enhanced) yields exactly packet_size bytes, a 24-byte header
\* followed by packet_size - 24 payload bytes; every packet length a worker
\* recorded is the configured packet size.
C13_PacketLength ==
    (pc_main # "construct" /\ CanGenerate(packet_size)) =>
        /\ GeneratePacketLen(packet_size) = packet_size
        /\ GenerateEnhancedPacketLen(packet_size) = packet_size
        /\ GeneratePacketLen(packet_size) - 24 = packet_size - HeaderLen
        /\ packet_size - HeaderLen >= 0
        /\ \A i \in DOMAIN stats.packet_sizes : stats.packet_sizes[i] = packet_size

\* Workers have built, sent and recorded two packets of the maximum size.
C13_Witness ==
    /\ Len(stats.packet_sizes) = 2
    /\ stats.packet_sizes[2] = packet_size
    /\ packet_size = MaxDatagram

\* C14: a configured packet size below the 24-byte header never reaches the
\* worker loop: it is clamped to at least 24, or no worker is ever started.
C14_SmallSizeRejected ==
    args.packet_size < HeaderLen => (packet_size >= HeaderLen \/ submitted = 0)

\* C15: teardown ordering. The final report is computed only when every
\* worker of the pool has left its send loop, sockets are closed only after
\* the report, and from the report on no step changes the statistics.
C15_TeardownOrder ==
    /\ [](/\ (pc_main \in {"report", "cleanup", "done"} \/ report # <<>>) =>
                /\ submitted = thread_count
                /\ \A w \in 1..submitted : pc[w] = "done"
          /\ (\E i \in DOMAIN sockets : sockets[i] > 0) =>
                /\ report # <<>>
                /\ \A w \in 1..submitted : pc[w] = "done")
    /\ [][(pc_main \in {"report", "cleanup", "done"} \/ report # <<>>) =>
              /\ stats' = stats
              /\ \A w \in 1..submitted : pc'[w] = "done"]_vars

\* A run with successful sends that was reported and whose sockets are closed.
C15_Witness ==
    /\ pc_main = "done"
    /\ report # <<>>
    /\ Total(ok) > 1
    /\ \A i \in DOMAIN sockets : sockets[i] > 0

\* C17: a worker whose attempt failed goes through the failure handler in
\* order: the failed_attempts update is executed, then the 100 ms backoff is
\* slept, and only then does the worker return to the loop condition; it
\* reaches no loop check, send or exit from inside the handler.
C17_BackoffAfterFailure ==
    [][\A w \in Workers :
        pc'[w] # pc[w] =>
            /\ pc[w] = "send" => pc'[w] \in {"ps_rd", "f_rd"}
            /\ pc[w] = "f_rd" => pc'[w] = "f_wr"
            /\ pc[w] = "f_wr" =>
                  /\ pc'[w] = "backoff"
                  /\ bad'[w] = bad[w] + 1
                  /\ stats'.failed_attempts = tmp[w] + 1
            /\ pc[w] = "backoff" => pc'[w] = "check"
            /\ pc'[w] \in {"check", "send", "done"} => pc[w] \notin {"f_rd", "f_wr"}]_vars

\* A worker in the backoff of its second failed attempt in a row.
C17_Witness ==
    \E w \in 1..submitted : pc[w] = "backoff" /\ bad[w] = 2 /\ ok[w] = 0

\* C18: bounded cancellation. A send attempt starts only from the loop
\* check, and once the stop signal is set a worker at the loop check can
\* only exit: no worker enters a new send attempt. A worker caught in an
\* iteration finishes that one attempt (and, if it failed, its one backoff,
\* which is entered only from the failure update of that attempt) and a
\* stopped worker stays stopped.
C18_BoundedCancellation ==
    [][\A w \in Workers :
        pc'[w] # pc[w] =>
            /\ pc'[w] = "send" => (pc[w] = "check" /\ ~stop_event)
            /\ (stop_event /\ pc[w] = "check") => pc'[w] = "done"
            /\ pc'[w] = "f_rd" => pc[w] = "send"
            /\ pc'[w] = "f_wr" => pc[w] = "f_rd"
            /\ pc'[w] = "backoff" => pc[w] = "f_wr"
            /\ pc[w] = "backoff" => pc'[w] = "check"
            /\ pc[w] # "done"]_vars

\* The stop signal was set while a worker had a send attempt in flight.
C18_Witness ==
    /\ stop_event
    /\ \E w \in 1..submitted : pc[w] = "send" /\ ok[w] + bad[w] > 0

\* C19: for the statistics a final report was printed from (packets_sent > 0),
\* the report's success percentage (1 - failed_attempts/packets_sent) * 100
\* and success_rate are both 100 when failed_attempts is 0, differ when
\* failed_attempts > 0, and the report's percentage lies within 0..100.
C19_ReportPercentage ==
    report # <<>> =>
        LET pct == report[1].success_pct
            rate == success_rate(stats)
        IN  /\ pct[2] > 0
            /\ stats.failed_attempts = 0 =>
                  (RateEquals(pct, 100) /\ RateEquals(rate, 100))
            /\ stats.failed_attempts > 0 => pct[1] * rate[2] # rate[1] * pct[2]
            /\ 0 <= pct[1] /\ pct[1] <= 100 * pct[2]

\* A worker is inside the success update (the with-block of lines 215-219).
InSuccessUpdate(w) == pc[w] \in {"ps_rd", "ps_wr", "bs_rd", "bs_wr", "rt_app", "sz_app"}

\* C20: whenever no worker is inside a success update, response_times and
\* packet_sizes have the same length, and that length is packets_sent.
C20_SamplesMatchCounter ==
    (\A w \in Workers : ~InSuccessUpdate(w)) =>
        /\ Len(stats.response_times) = Len(stats.packet_sizes)
        /\ Len(stats.response_times) = stats.packets_sent

\* ------------------------------------------------------- the 1000th send
\* A run observed from a state it reaches after ThrottleEvery - 1 successful
\* sends: the main thread sleeps in start(), every worker is at its loop
\* check, the statistics hold ThrottleEvery - 1 packets. ok and bad count the
\* updates made from this state on.
ThrottleInit ==
    /\ args \in [ip : {"10.0.0.1"}, port : {80}, duration : {1},
                 threads : 1..MaxWorkers, packet_size : {HeaderLen}]
    /\ pc_main = "sleeping"
    /\ thread_count = args.threads
    /\ packet_size = args.packet_size
    /\ sockets = SetupSockets(args.threads)
    /\ stop_event = FALSE
    /\ stop_sets = 0
    /\ stats = [packets_sent |-> ThrottleEvery - 1,
                bytes_sent |-> (ThrottleEvery - 1) * GeneratePacketLen(args.packet_size),
                failed_attempts |-> 0,
                response_times |-> [i \in 1..(ThrottleEvery - 1) |-> 0],
                packet_sizes |-> [i \in 1..(ThrottleEvery - 1) |->
                                    GeneratePacketLen(args.packet_size)]]
    /\ cpu_percent = 50
    /\ pc_mon = "check"
    /\ pc_prog = "loop"
    /\ submitted = args.threads
    /\ pc = [w \in Workers |-> IF w <= args.threads THEN "check" ELSE "idle"]
    /\ tmp = [w \in Workers |-> 0]
    /\ ok = [w \in Workers |-> 0]
    /\ bad = [w \in Workers |-> 0]
    /\ kth_send = [w \in Workers |-> FALSE]
    /\ interrupted = FALSE
    /\ report = <<>>

\* The steps possible once start() has entered time.sleep(duration).
RunNext ==
    \/ TimerExpires
    \/ Interrupt
    \/ JoinFutures
    \/ JoinProgress
    \/ JoinMonitor
    \/ ExecutorExit
    \/ DisplayFinalReport
    \/ Cleanup
    \/ MonitorCheck
    \/ MonitorSample
    \/ DisplayProgress
    \/ \E w \in Workers : Worker(w)

ThrottleSpec == ThrottleInit /\ [][RunNext]_vars

\* C16: a worker whose success update stored a multiple of 1000 into
\* packets_sent and that found the CPU reading at or below 90 takes the 1 ms
\* throttle sleep before it returns to the loop: it never leaves the elif of
\* line 224 without sleeping.
C16_KthSendThrottled ==
    [][\A w \in Workers :
        (kth_send[w] /\ pc[w] = "thr_k" /\ pc'[w] # "thr_k") => pc'[w] = "sleep_k"]_vars
====
